---------------------------- MODULE Spec2Model ----------------------------
(***************************************************************************)
(* Model of truth.py: the Hebrew letter tables, the encoder and decoder,   *)
(* the gematria sum, the number analyser and the command line entry point. *)
(*                                                                         *)
(* A character is its Unicode code point, a string is a sequence of code   *)
(* points.  A call that can raise returns a record [ok, val, exc].         *)
(***************************************************************************)
EXTENDS Integers, Sequences, FiniteSets, TLC

VARIABLES
    pc,        \* control point of the operation being executed
    argv,      \* sys.argv
    entree,    \* main: the stripped argument
    sequence,  \* the dot-separated sequence handed to the decoder
    mot,       \* the word handed to the analysis
    results,   \* the result mapping under construction
    retour,    \* outcome of the last call: [ok, val, exc]
    sortie,    \* what has been printed on standard output, in order
    code,      \* exit code of the process (Running while it runs)
    entier,    \* the integer handed to the number functions
    fz,        \* frame of factorize: [n, d, factors, pc]
    journal    \* the calls of lettres_uniques_hebreu made so far: [mot, val]

vars == <<pc, argv, entree, sequence, mot, results, retour, sortie, code,
          entier, fz, journal>>

---------------------------------------------------------------------------
(* Bounds of the model.                                                    *)

MaxWordLen == 2
MaxSeqLen == 4
MaxArgLen == 3
MaxUniqLen == 2
MaxN == 60
MinN == 3

---------------------------------------------------------------------------
(* Characters and the str methods the program calls, on the code points    *)
(* the model draws its inputs from.                                        *)

ORD_A == 65
POINT == 46
ESPACE == 32
MOINS == 45
ZERO == 48

\* The five final forms: kaf, mem, nun, pe, tsadi sofit.
FormesFinales == {1498, 1501, 1503, 1507, 1509}

ALPHABET_HEBREU ==
    (1488 :> 1) @@ (1489 :> 2) @@ (1490 :> 3) @@ (1491 :> 4) @@ (1492 :> 5) @@
    (1493 :> 6) @@ (1494 :> 7) @@ (1495 :> 8) @@ (1496 :> 9) @@ (1497 :> 10) @@
    (1499 :> 11) @@ (1500 :> 12) @@ (1502 :> 13) @@ (1504 :> 14) @@ (1505 :> 15) @@
    (1506 :> 16) @@ (1508 :> 17) @@ (1510 :> 18) @@ (1511 :> 19) @@ (1512 :> 20) @@
    (1513 :> 21) @@ (1514 :> 22) @@
    (1498 :> 11) @@ (1501 :> 13) @@ (1503 :> 14) @@ (1507 :> 17) @@ (1509 :> 18)

\* The reverse table obtained by inverting ALPHABET_HEBREU entry by entry:
\* the final forms, written last, take the place of their base letters.
ALPHABET_INVERSE_finales ==
    (1 :> 1488) @@ (2 :> 1489) @@ (3 :> 1490) @@ (4 :> 1491) @@ (5 :> 1492) @@
    (6 :> 1493) @@ (7 :> 1494) @@ (8 :> 1495) @@ (9 :> 1496) @@ (10 :> 1497) @@
    (11 :> 1498) @@ (12 :> 1500) @@ (13 :> 1501) @@ (14 :> 1503) @@ (15 :> 1505) @@
    (16 :> 1506) @@ (17 :> 1507) @@ (18 :> 1509) @@ (19 :> 1511) @@ (20 :> 1512) @@
    (21 :> 1513) @@ (22 :> 1514)

ALPHABET_INVERSE ==
    (1 :> 1488) @@ (2 :> 1489) @@ (3 :> 1490) @@ (4 :> 1491) @@ (5 :> 1492) @@
    (6 :> 1493) @@ (7 :> 1494) @@ (8 :> 1495) @@ (9 :> 1496) @@ (10 :> 1497) @@
    (11 :> 1499) @@ (12 :> 1500) @@ (13 :> 1502) @@ (14 :> 1504) @@ (15 :> 1505) @@
    (16 :> 1506) @@ (17 :> 1508) @@ (18 :> 1510) @@ (19 :> 1511) @@ (20 :> 1512) @@
    (21 :> 1513) @@ (22 :> 1514)

\* `lettre in ALPHABET_HEBREU`
EstHebreu(c) == c \in DOMAIN ALPHABET_HEBREU

\* str.isalpha() of one character: Latin letters, the Latin-1 letters
\* U+00C9, U+00DF, U+00E9, and the Hebrew letters U+05D0..U+05EA.
isalpha(c) ==
    \/ c \in 65..90
    \/ c \in 97..122
    \/ c \in {201, 223, 233}
    \/ c \in 1488..1514

\* str.upper() of one character; U+00DF (sharp s) uppercases to "SS".
upper(c) ==
    IF c \in 97..122 THEN <<c - 32>>
    ELSE IF c = 233 THEN <<201>>
    ELSE IF c = 223 THEN <<83, 83>>
    ELSE <<c>>

\* Characters for which str.isdigit() is true: the decimal digits (ASCII,
\* Arabic-Indic) and the superscript digits U+00B2, U+00B3, U+00B9.
ChiffresExposants == {178, 179, 185}

EstChiffre(c) == c \in 48..57 \/ c \in 1632..1641 \/ c \in ChiffresExposants

\* Characters int() accepts as a digit (str.isdecimal()), with their value.
EstDecimal(c) == c \in 48..57 \/ c \in 1632..1641

ValeurChiffre(c) == IF c \in 48..57 THEN c - 48 ELSE c - 1632

\* str.isdigit(): non-empty and every character a digit.
isdigit(s) == Len(s) > 0 /\ \A i \in 1..Len(s) : EstChiffre(s[i])

\* Outcomes of a call.
Retour(v) == [ok |-> TRUE, val |-> v, exc |-> "none"]

Leve(e) == [ok |-> FALSE, val |-> <<>>, exc |-> e]

\* int(s) for a string that passed isdigit(): ValueError on a digit that is
\* not a decimal digit.
RECURSIVE IntBoucle(_, _)
IntBoucle(s, acc) ==
    IF s = <<>> THEN acc
    ELSE IntBoucle(Tail(s), 10 * acc + ValeurChiffre(Head(s)))

int(s) ==
    IF Len(s) > 0 /\ \A i \in 1..Len(s) : EstDecimal(s[i])
    THEN Retour(IntBoucle(s, 0))
    ELSE Leve("ValueError")

\* str(n) for an integer.
RECURSIVE StrNat(_)
StrNat(n) ==
    IF n < 10 THEN <<ZERO + n>>
    ELSE Append(StrNat(n \div 10), ZERO + (n % 10))

str(n) == IF n < 0 THEN <<MOINS>> \o StrNat(0 - n) ELSE StrNat(n)

\* str.strip(): drops leading and trailing whitespace.
RECURSIVE LStrip(_)
LStrip(s) == IF s # <<>> /\ Head(s) = ESPACE THEN LStrip(Tail(s)) ELSE s

RECURSIVE RStrip(_)
RStrip(s) ==
    IF s # <<>> /\ s[Len(s)] = ESPACE THEN RStrip(SubSeq(s, 1, Len(s) - 1)) ELSE s

strip(s) == RStrip(LStrip(s))

\* s.split('.')
RECURSIVE SplitBoucle(_, _, _)
SplitBoucle(s, courant, parts) ==
    IF s = <<>> THEN Append(parts, courant)
    ELSE IF Head(s) = POINT THEN SplitBoucle(Tail(s), <<>>, Append(parts, courant))
    ELSE SplitBoucle(Tail(s), Append(courant, Head(s)), parts)

split(s) == SplitBoucle(s, <<>>, <<>>)

\* '.'.join(parts)
RECURSIVE join(_)
join(parts) ==
    IF parts = <<>> THEN <<>>
    ELSE IF Len(parts) = 1 THEN parts[1]
    ELSE parts[1] \o <<POINT>> \o join(Tail(parts))

---------------------------------------------------------------------------
(* encoder_mot_hebreu, decoder_sequence_hebreu, mot_vers_nombre.           *)

\* ord(lettre.upper()) - ord('A') + 1; ord() raises TypeError on a string
\* that is not one character long.
CodeLatin(lettre) ==
    IF Len(upper(lettre)) = 1
    THEN Retour(upper(lettre)[1] - ORD_A + 1)
    ELSE Leve("TypeError")

RECURSIVE EncoderBoucle(_, _)
EncoderBoucle(lettres, resultat) ==
    IF lettres = <<>> THEN Retour(join(resultat))
    ELSE LET lettre == Head(lettres) IN
         IF EstHebreu(lettre)
         THEN EncoderBoucle(Tail(lettres), Append(resultat, str(ALPHABET_HEBREU[lettre])))
         ELSE IF isalpha(lettre)
         THEN IF CodeLatin(lettre).ok
              THEN EncoderBoucle(Tail(lettres), Append(resultat, str(CodeLatin(lettre).val)))
              ELSE CodeLatin(lettre)
         ELSE EncoderBoucle(Tail(lettres), resultat)

encoder_mot_hebreu(m) == EncoderBoucle(strip(m), <<>>)

\* One token of the decoder's loop: the letters it appends (none or one),
\* or the exception int() raises.
DecoderNombre(nombre) ==
    IF isdigit(nombre)
    THEN IF int(nombre).ok
         THEN LET numero == int(nombre).val IN
              IF 1 <= numero /\ numero <= 22 THEN Retour(<<ALPHABET_INVERSE[numero]>>)
              ELSE IF 1 <= numero /\ numero <= 26 THEN Retour(<<numero + ORD_A - 1>>)
              ELSE Retour(<<>>)
         ELSE int(nombre)
    ELSE Retour(<<>>)

RECURSIVE DecoderBoucle(_, _)
DecoderBoucle(nombres, mot_decode) ==
    IF nombres = <<>> THEN Retour(mot_decode)
    ELSE IF DecoderNombre(Head(nombres)).ok
    THEN DecoderBoucle(Tail(nombres), mot_decode \o DecoderNombre(Head(nombres)).val)
    ELSE DecoderNombre(Head(nombres))

decoder_sequence_hebreu(s) == DecoderBoucle(split(s), <<>>)

\* mot_vers_nombre giving the Latin letters their code, as the encoder does.
RECURSIVE SommeLatinBoucle(_, _)
SommeLatinBoucle(lettres, total) ==
    IF lettres = <<>> THEN total
    ELSE IF EstHebreu(Head(lettres))
    THEN SommeLatinBoucle(Tail(lettres), total + ALPHABET_HEBREU[Head(lettres)])
    ELSE IF isalpha(Head(lettres)) /\ CodeLatin(Head(lettres)).ok
    THEN SommeLatinBoucle(Tail(lettres), total + CodeLatin(Head(lettres)).val)
    ELSE SommeLatinBoucle(Tail(lettres), total)

mot_vers_nombre_latin(m) == SommeLatinBoucle(strip(m), 0)

RECURSIVE SommeBoucle(_, _)
SommeBoucle(lettres, total) ==
    IF lettres = <<>> THEN total
    ELSE IF EstHebreu(Head(lettres))
    THEN SommeBoucle(Tail(lettres), total + ALPHABET_HEBREU[Head(lettres)])
    ELSE SommeBoucle(Tail(lettres), total)

mot_vers_nombre(m) == SommeBoucle(strip(m), 0)

---------------------------------------------------------------------------
(* The text properties of a word.                                          *)

RECURSIVE FiltreHebreu(_)
FiltreHebreu(s) ==
    IF s = <<>> THEN <<>>
    ELSE IF EstHebreu(Head(s)) THEN <<Head(s)>> \o FiltreHebreu(Tail(s))
    ELSE FiltreHebreu(Tail(s))

Inverse(s) == [i \in 1..Len(s) |-> s[Len(s) + 1 - i]]

est_palindrome_hebreu(m) ==
    LET mot_nettoye == FiltreHebreu(strip(m)) IN mot_nettoye = Inverse(mot_nettoye)

compter_lettres_hebreu(m) == Len(FiltreHebreu(m))

\* The orders in which iterating over set(lettres) can yield its elements:
\* the iteration order of a set of strings is fixed neither by the
\* language nor from one run to the next (string hashing is randomised).
Enumerations(S) ==
    {e \in [1..Cardinality(S) -> S] : \A i, j \in 1..Cardinality(S) : e[i] = e[j] => i = j}

\* sorted(..., key=lambda x: ALPHABET_HEBREU[x]) is stable: an element goes
\* after every element already placed whose key is not larger.
RECURSIVE Inserer(_, _)
Inserer(x, triee) ==
    IF triee = <<>> THEN <<x>>
    ELSE IF ALPHABET_HEBREU[Head(triee)] <= ALPHABET_HEBREU[x]
    THEN <<Head(triee)>> \o Inserer(x, Tail(triee))
    ELSE <<x>> \o triee

RECURSIVE TriBoucle(_, _)
TriBoucle(s, triee) ==
    IF s = <<>> THEN triee ELSE TriBoucle(Tail(s), Inserer(Head(s), triee))

sorted(s) == TriBoucle(s, <<>>)

\* The strings lettres_uniques_hebreu can return for a word.
lettres_uniques_hebreu(m) ==
    LET lettres == FiltreHebreu(m) IN
    {sorted(e) : e \in Enumerations({lettres[i] : i \in 1..Len(lettres)})}

\* calculer_gematria summing the tokens of the encoded sequence instead of
\* the Hebrew values.
calculer_gematria_sequence(m) ==
    LET valeur_simple == mot_vers_nombre_latin(strip(m)) IN
    [valeur_simple |-> valeur_simple,
     valeur_miloui |-> valeur_simple,
     description |-> [prefixe |-> "Gematria: ", valeur |-> str(valeur_simple)]]

calculer_gematria(m) ==
    LET valeur_simple == mot_vers_nombre(strip(m)) IN
    [valeur_simple |-> valeur_simple,
     valeur_miloui |-> valeur_simple,
     description |-> [prefixe |-> "Gematria: ", valeur |-> str(valeur_simple)]]

---------------------------------------------------------------------------
(* factorize, is_prime and analyser_nombre.                                *)

\* The frame of factorize(n) on entry; n < 2 returns [n] at once.
FactorizeAppel(n) ==
    IF n < 2
    THEN [n |-> n, d |-> 0, factors |-> <<n>>, pc |-> "return"]
    ELSE [n |-> n, d |-> 2, factors |-> <<>>, pc |-> "while_d"]

\* factorize with the outer loop test written d * d < n.
FactorizePasStrict(f) ==
    CASE f.pc = "while_d" ->
            IF f.d * f.d < f.n THEN [f EXCEPT !.pc = "while_n"]
            ELSE [f EXCEPT !.pc = "if_n"]
      [] f.pc = "while_n" ->
            IF f.n % f.d = 0
            THEN [f EXCEPT !.factors = Append(@, f.d), !.n = f.n \div f.d]
            ELSE [f EXCEPT !.d = @ + 1, !.pc = "while_d"]
      [] f.pc = "if_n" ->
            [f EXCEPT !.factors = IF f.n > 1 THEN Append(@, f.n) ELSE @,
                      !.pc = "return"]

\* One step of factorize: a loop test with the body it guards.
FactorizePas(f) ==
    CASE f.pc = "while_d" ->
            IF f.d * f.d <= f.n THEN [f EXCEPT !.pc = "while_n"]
            ELSE [f EXCEPT !.pc = "if_n"]
      [] f.pc = "while_n" ->
            IF f.n % f.d = 0
            THEN [f EXCEPT !.factors = Append(@, f.d), !.n = f.n \div f.d]
            ELSE [f EXCEPT !.d = @ + 1, !.pc = "while_d"]
      [] f.pc = "if_n" ->
            [f EXCEPT !.factors = IF f.n > 1 THEN Append(@, f.n) ELSE @,
                      !.pc = "return"]

\* factorize run to its return: the steps are taken one after the other,
\* each on the frame the previous one left (g is that frame, evaluated once).
RECURSIVE FactorizeFin(_)
FactorizeFin(f) ==
    LET Suite(g) == IF g.pc = "return" THEN g.factors ELSE FactorizeFin(FactorizePas(g))
    IN CHOOSE r \in {Suite(g) : g \in {f}} : TRUE

factorize(n) == FactorizeFin(FactorizeAppel(n))

\* int(math.sqrt(n)) for n >= 0: the floor of the square root (the float
\* square root is exact to the unit below 2^52).
IntSqrt(n) == CHOOSE r \in 0..n : r * r <= n /\ n < (r + 1) * (r + 1)

RECURSIVE IsPrimeBoucle(_, _, _)
IsPrimeBoucle(n, i, fin) ==
    IF i >= fin THEN TRUE
    ELSE IF n % i = 0 THEN FALSE
    ELSE IsPrimeBoucle(n, i + 1, fin)

\* is_prime with range(2, int(math.sqrt(n))), the + 1 forgotten.
is_prime_sans_racine(n) == IF n < 2 THEN FALSE ELSE IsPrimeBoucle(n, 2, IntSqrt(n))

is_prime(n) == IF n < 2 THEN FALSE ELSE IsPrimeBoucle(n, 2, IntSqrt(n) + 1)

\* The digits of n >= 0 in a base, as hex(), bin() and oct() write them.
RECURSIVE ChiffresBase(_, _)
ChiffresBase(n, base) ==
    LET c == n % base
        car == IF c < 10 THEN ZERO + c ELSE 97 + (c - 10)
    IN IF n < base THEN <<car>> ELSE Append(ChiffresBase(n \div base, base), car)

\* hex(n), bin(n), oct(n): sign, '0', the base letter, the digits.
ReprBase(n, base, lettre) ==
    IF n < 0 THEN <<MOINS, ZERO, lettre>> \o ChiffresBase(0 - n, base)
    ELSE <<ZERO, lettre>> \o ChiffresBase(n, base)

\* s[2:]
Depuis2(s) == SubSeq(s, 3, Len(s))

\* s.upper() of a string whose characters uppercase to one character.
Majuscules(s) == [i \in 1..Len(s) |-> upper(s[i])[1]]

\* sum(int(d) for d in str(nombre)): int('-') raises ValueError.
RECURSIVE SommeChiffres(_, _)
SommeChiffres(s, acc) ==
    IF s = <<>> THEN Retour(acc)
    ELSE IF int(<<Head(s)>>).ok THEN SommeChiffres(Tail(s), acc + int(<<Head(s)>>).val)
    ELSE int(<<Head(s)>>)

\* The keys of the table of meanings.
Significations == (1..22) \cup {26, 32, 42, 72}

signification_gematria(nombre) ==
    IF nombre \in Significations THEN [connue |-> TRUE, cle |-> nombre]
    ELSE [connue |-> FALSE, cle |-> 0]

analyser_nombre(nombre) ==
    IF ~ SommeChiffres(str(nombre), 0).ok THEN SommeChiffres(str(nombre), 0)
    ELSE Retour(
        [decimal |-> nombre,
         hexadecimal |-> Majuscules(Depuis2(ReprBase(nombre, 16, 120))),
         binary |-> Depuis2(ReprBase(nombre, 2, 98)),
         octal |-> Depuis2(ReprBase(nombre, 8, 111)),
         parity |-> IF nombre % 2 # 0 THEN "Odd" ELSE "Even",
         factors |-> factorize(nombre),
         prime_status |-> IF is_prime(nombre) THEN "Prime" ELSE "Composite",
         digit_sum |-> SommeChiffres(str(nombre), 0).val,
         digit_count |-> Len(str(nombre)),
         square |-> nombre * nombre,
         cube |-> nombre * nombre * nombre,
         square_root |-> [nan |-> ~ (nombre >= 0), de |-> nombre],
         md5 |-> [algo |-> "md5", octets |-> str(nombre)],
         sha256 |-> [algo |-> "sha256", octets |-> str(nombre)],
         base64 |-> [algo |-> "base64", octets |-> str(nombre)],
         valeur_gematria |-> nombre,
         signification_gematria |-> signification_gematria(nombre)])

---------------------------------------------------------------------------
(* Values of the variables an operation does not use.                      *)

Running == 0 - 1
Neant == [ok |-> FALSE, val |-> <<>>, exc |-> "unset"]
FzRepos == [n |-> 0, d |-> 0, factors |-> <<>>, pc |-> "repos"]

\* All strings over chars of length at most len.
Chaines(chars, len) == UNION {[1..k -> chars] : k \in 0..len}

---------------------------------------------------------------------------
(* The decoder applied to any dot-separated sequence.                      *)

\* '.', '0', '1', '2', '3', '7', 'x', superscript two, Arabic-Indic three
CharsSequence == {46, 48, 49, 50, 51, 55, 120, 178, 1635}

InitSequence ==
    /\ sequence \in Chaines(CharsSequence, MaxSeqLen)
    /\ pc = "appel"
    /\ retour = Neant
    /\ argv = <<>> /\ entree = <<>> /\ mot = <<>> /\ results = <<>>
    /\ sortie = <<>> /\ code = Running
    /\ entier = 0 /\ fz = FzRepos /\ journal = <<>>

AppelDecoder ==
    /\ pc = "appel"
    /\ retour' = decoder_sequence_hebreu(sequence)
    /\ pc' = "fini"
    /\ UNCHANGED <<argv, entree, sequence, mot, results, sortie, code, entier, fz, journal>>

NextSequence == AppelDecoder

SpecSequence == InitSequence /\ [][NextSequence]_vars

---------------------------------------------------------------------------
(* The number functions applied to an integer: factorize step by step,     *)
(* then is_prime, then analyser_nombre.                                    *)

InitNombre ==
    /\ entier \in (0 - MinN)..MaxN
    /\ fz = FactorizeAppel(entier)
    /\ pc = "factorize"
    /\ retour = Neant
    /\ argv = <<>> /\ entree = <<>> /\ sequence = <<>> /\ mot = <<>>
    /\ results = <<>> /\ sortie = <<>> /\ code = Running /\ journal = <<>>

PasFactorize ==
    /\ pc = "factorize"
    /\ fz.pc # "return"
    /\ fz' = FactorizePas(fz)
    /\ UNCHANGED <<pc, argv, entree, sequence, mot, results, retour, sortie, code,
                   entier, journal>>

RetourFactorize ==
    /\ pc = "factorize"
    /\ fz.pc = "return"
    /\ pc' = "is_prime"
    /\ UNCHANGED <<argv, entree, sequence, mot, results, retour, sortie, code,
                   entier, fz, journal>>

AppelIsPrime ==
    /\ pc = "is_prime"
    /\ retour' = Retour(is_prime(entier))
    /\ pc' = "analyser_nombre"
    /\ UNCHANGED <<argv, entree, sequence, mot, results, sortie, code, entier, fz, journal>>

AppelAnalyserNombre ==
    /\ pc = "analyser_nombre"
    /\ IF analyser_nombre(entier).ok
       THEN /\ results' = analyser_nombre(entier).val
            /\ pc' = "fini"
            /\ UNCHANGED retour
       ELSE /\ retour' = analyser_nombre(entier)
            /\ pc' = "leve"
            /\ UNCHANGED results
    /\ UNCHANGED <<argv, entree, sequence, mot, sortie, code, entier, fz, journal>>

NextNombre ==
    \/ PasFactorize
    \/ RetourFactorize
    \/ AppelIsPrime
    \/ AppelAnalyserNombre

\* The interpreter keeps executing a loop it has entered: a step of
\* factorize that can be taken is taken.
SpecNombre == InitNombre /\ [][NextNombre]_vars /\ WF_fz(PasFactorize)

---------------------------------------------------------------------------
(* analyser_mot_hebreu, one statement at a time.  A statement that raises  *)
(* leaves the function (pc = "leve") with the exception in retour.         *)

AnalyserEntree ==
    /\ pc = "analyser"
    /\ results' = [mot_original |-> mot, longueur_mot |-> Len(mot)]
    /\ pc' = "encoder"
    /\ UNCHANGED <<argv, entree, sequence, mot, retour, sortie, code, entier, fz, journal>>

AnalyserEncoder ==
    /\ pc = "encoder"
    /\ IF encoder_mot_hebreu(mot).ok
       THEN /\ results' = [sequence_hebreu |-> encoder_mot_hebreu(mot).val] @@ results
            /\ pc' = "valeur"
            /\ UNCHANGED retour
       ELSE /\ retour' = encoder_mot_hebreu(mot)
            /\ pc' = "leve"
            /\ UNCHANGED results
    /\ UNCHANGED <<argv, entree, sequence, mot, sortie, code, entier, fz, journal>>

AnalyserValeur ==
    /\ pc = "valeur"
    /\ results' = [valeur_numerique |-> mot_vers_nombre(mot)] @@ results
    /\ pc' = "decoder"
    /\ UNCHANGED <<argv, entree, sequence, mot, retour, sortie, code, entier, fz, journal>>

AnalyserDecoder ==
    /\ pc = "decoder"
    /\ IF decoder_sequence_hebreu(results.sequence_hebreu).ok
       THEN /\ results' = [mot_decode |-> decoder_sequence_hebreu(results.sequence_hebreu).val]
                          @@ results
            /\ pc' = "proprietes"
            /\ UNCHANGED retour
       ELSE /\ retour' = decoder_sequence_hebreu(results.sequence_hebreu)
            /\ pc' = "leve"
            /\ UNCHANGED results
    /\ UNCHANGED <<argv, entree, sequence, mot, sortie, code, entier, fz, journal>>

AnalyserProprietes ==
    /\ pc = "proprietes"
    /\ results' = [est_palindrome |-> est_palindrome_hebreu(mot),
                   nombre_lettres |-> compter_lettres_hebreu(mot)] @@ results
    /\ pc' = "uniques"
    /\ UNCHANGED <<argv, entree, sequence, mot, retour, sortie, code, entier, fz, journal>>

AnalyserUniques ==
    /\ pc = "uniques"
    /\ \E u \in lettres_uniques_hebreu(mot) :
          results' = [lettres_uniques |-> u] @@ results
    /\ pc' = "gematria"
    /\ UNCHANGED <<argv, entree, sequence, mot, retour, sortie, code, entier, fz, journal>>

AnalyserGematria ==
    /\ pc = "gematria"
    /\ results' = [gematria |-> calculer_gematria(mot)] @@ results
    /\ pc' = "nombre"
    /\ UNCHANGED <<argv, entree, sequence, mot, retour, sortie, code, entier, fz, journal>>

\* nombre = results['valeur_numerique']; results.update(analyser_nombre(nombre))
AnalyserNombre ==
    /\ pc = "nombre"
    /\ entier' = results.valeur_numerique
    /\ IF analyser_nombre(results.valeur_numerique).ok
       THEN /\ results' = analyser_nombre(results.valeur_numerique).val @@ results
            /\ pc' = "retourne"
            /\ UNCHANGED retour
       ELSE /\ retour' = analyser_nombre(results.valeur_numerique)
            /\ pc' = "leve"
            /\ UNCHANGED results
    /\ UNCHANGED <<argv, entree, sequence, mot, sortie, code, fz, journal>>

analyser_mot_hebreu ==
    \/ AnalyserEntree
    \/ AnalyserEncoder
    \/ AnalyserValeur
    \/ AnalyserDecoder
    \/ AnalyserProprietes
    \/ AnalyserUniques
    \/ AnalyserGematria
    \/ AnalyserNombre

---------------------------------------------------------------------------
(* analyser_mot_hebreu applied to any word.                                *)

\* the 27 mapped letters, ' ', '.', '1', 'A', 'z', sharp s, e acute
CharsMot == DOMAIN ALPHABET_HEBREU \cup {32, 46, 49, 65, 122, 223, 233}

\* The word of the usage message.
Shalom == <<1513, 1500, 1493, 1501>>

InitMot ==
    /\ mot \in Chaines(CharsMot, MaxWordLen) \cup {Shalom}
    /\ pc = "analyser"
    /\ retour = Neant
    /\ results = <<>>
    /\ argv = <<>> /\ entree = <<>> /\ sequence = <<>>
    /\ sortie = <<>> /\ code = Running
    /\ entier = 0 /\ fz = FzRepos /\ journal = <<>>

NextMot == analyser_mot_hebreu

SpecMot == InitMot /\ [][NextMot]_vars

---------------------------------------------------------------------------
(* Standard output: each printed block is [genre, texte].                  *)

Ligne(genre, texte) == [genre |-> genre, texte |-> texte]

\* The letter-by-letter lines of afficher_resultats, up to the first letter
\* whose code cannot be computed: [lignes, ok, exc].
RECURSIVE DetailBoucle(_, _)
DetailBoucle(lettres, lignes) ==
    IF lettres = <<>> THEN [lignes |-> lignes, ok |-> TRUE, exc |-> "none"]
    ELSE LET lettre == Head(lettres) IN
         IF EstHebreu(lettre)
         THEN DetailBoucle(Tail(lettres),
                           Append(lignes, Ligne("detail", <<lettre, ALPHABET_HEBREU[lettre]>>)))
         ELSE IF isalpha(lettre)
         THEN IF CodeLatin(lettre).ok
              THEN DetailBoucle(Tail(lettres),
                                Append(lignes, Ligne("detail", <<lettre, CodeLatin(lettre).val>>)))
              ELSE [lignes |-> lignes, ok |-> FALSE, exc |-> CodeLatin(lettre).exc]
         ELSE DetailBoucle(Tail(lettres), lignes)

\* afficher_resultats: the report (the square root line only when it is a
\* number), then the letter-by-letter lines.
afficher_resultats(res) ==
    DetailBoucle(res.mot_original,
                 <<Ligne("rapport", res.mot_original)>>
                 \o (IF res.square_root.nan THEN <<>> ELSE <<Ligne("racine", str(res.decimal))>>)
                 \o <<Ligne("hachages", res.md5.octets)>>)

---------------------------------------------------------------------------
(* main.                                                                   *)

Script == <<116, 46, 112, 121>>

\* ' ', '.', '1', '2', superscript two, 'a', sharp s, final mem, shin
CharsArg == {32, 46, 49, 50, 178, 97, 223, 1501, 1513}

\* The sequence of the usage message: "21.12.6.13".
SequenceShalom == <<50, 49, 46, 49, 50, 46, 54, 46, 49, 51>>

Arguments == Chaines(CharsArg, MaxArgLen) \cup {Shalom, SequenceShalom}

Init ==
    /\ argv \in {<<Script>>}
                \cup {<<Script, a>> : a \in Arguments}
                \cup {<<Script, a, b>> : a, b \in Chaines(CharsArg, 1)}
    /\ pc = "main"
    /\ entree = <<>> /\ sequence = <<>> /\ mot = <<>>
    /\ results = <<>>
    /\ retour = Neant
    /\ sortie = <<>>
    /\ code = Running
    /\ entier = 0 /\ fz = FzRepos /\ journal = <<>>

\* len(sys.argv) != 2: the usage message, sys.exit(1)
Usage ==
    /\ pc = "main"
    /\ Len(argv) # 2
    /\ sortie' = Append(sortie, Ligne("usage", <<>>))
    /\ code' = 1
    /\ pc' = "exit"
    /\ UNCHANGED <<argv, entree, sequence, mot, results, retour, entier, fz, journal>>

\* entree = sys.argv[1].strip()
LireEntree ==
    /\ pc = "main"
    /\ Len(argv) = 2
    /\ entree' = strip(argv[2])
    /\ pc' = "try"
    /\ UNCHANGED <<argv, sequence, mot, results, retour, sortie, code, entier, fz, journal>>

\* The test of the try block without its first conjunct, '.' in entree.
EstSequenceSansPoint(e) == \A k \in 1..Len(split(e)) : isdigit(split(e)[k])

\* '.' in entree and all(part.isdigit() for part in entree.split('.'))
EstSequenceNumerique(e) ==
    /\ \E i \in 1..Len(e) : e[i] = POINT
    /\ \A k \in 1..Len(split(e)) : isdigit(split(e)[k])

\* The branch of the try block that picks the word to analyse.
ChoisirMot ==
    /\ pc = "try"
    /\ IF EstSequenceNumerique(entree)
       THEN /\ sequence' = entree
            /\ IF decoder_sequence_hebreu(entree).ok
               THEN /\ mot' = decoder_sequence_hebreu(entree).val
                    /\ sortie' = Append(sortie, Ligne("decode", mot'))
                    /\ pc' = "analyser"
                    /\ UNCHANGED retour
               ELSE /\ retour' = decoder_sequence_hebreu(entree)
                    /\ pc' = "leve"
                    /\ UNCHANGED <<mot, sortie>>
       ELSE /\ mot' = entree
            /\ pc' = "analyser"
            /\ UNCHANGED <<sequence, retour, sortie>>
    /\ UNCHANGED <<argv, entree, results, code, entier, fz, journal>>

\* afficher_resultats(results)
Afficher ==
    /\ pc = "retourne"
    /\ sortie' = sortie \o afficher_resultats(results).lignes
    /\ IF afficher_resultats(results).ok
       THEN pc' = "table" /\ UNCHANGED retour
       ELSE pc' = "leve" /\ retour' = Leve(afficher_resultats(results).exc)
    /\ UNCHANGED <<argv, entree, sequence, mot, results, code, entier, fz, journal>>

\* afficher_table_hebreu(), then the normal end of the process
AfficherTable ==
    /\ pc = "table"
    /\ sortie' = Append(sortie, Ligne("table", <<>>))
    /\ code' = 0
    /\ pc' = "exit"
    /\ UNCHANGED <<argv, entree, sequence, mot, results, retour, entier, fz, journal>>

\* The handler without its sys.exit(1): the process ends normally.
ExceptSansExit ==
    /\ pc = "leve"
    /\ sortie' = Append(sortie, Ligne("erreur", <<>>))
    /\ code' = 0
    /\ pc' = "exit"
    /\ UNCHANGED <<argv, entree, sequence, mot, results, retour, entier, fz, journal>>

\* except Exception as e: the error line, sys.exit(1)
Except ==
    /\ pc = "leve"
    /\ sortie' = Append(sortie, Ligne("erreur", <<>>))
    /\ code' = 1
    /\ pc' = "exit"
    /\ UNCHANGED <<argv, entree, sequence, mot, results, retour, entier, fz, journal>>

main ==
    \/ Usage
    \/ LireEntree
    \/ ChoisirMot
    \/ Afficher
    \/ AfficherTable
    \/ Except

Next == main \/ analyser_mot_hebreu

Spec == Init /\ [][Next]_vars

---------------------------------------------------------------------------
(* lettres_uniques_hebreu called several times in one process.             *)

MaxAppels == 2

\* alef, mem, final mem, 'a'
CharsUniques == {1488, 1502, 1501, 97}

InitUniques ==
    /\ journal = <<>>
    /\ pc = "appel"
    /\ argv = <<>> /\ entree = <<>> /\ sequence = <<>> /\ mot = <<>>
    /\ results = <<>> /\ retour = Neant /\ sortie = <<>> /\ code = Running
    /\ entier = 0 /\ fz = FzRepos

\* The distinct Hebrew letters of a word in the order of their first
\* occurrence: the order in which set(lettres) receives them.
RECURSIVE PremieresOccurrences(_, _)
PremieresOccurrences(w, vues) ==
    IF w = <<>> THEN vues
    ELSE IF EstHebreu(Head(w)) /\ \A i \in 1..Len(vues) : vues[i] # Head(w)
    THEN PremieresOccurrences(Tail(w), Append(vues, Head(w)))
    ELSE PremieresOccurrences(Tail(w), vues)

\* One more call.  Within a process the hash seed is fixed: a set filled
\* with the same letters in the same order is iterated in the same order.
AppelUniques ==
    /\ pc = "appel"
    /\ Len(journal) < MaxAppels
    /\ \E m \in Chaines(CharsUniques, MaxUniqLen) :
          /\ mot' = m
          /\ \E u \in lettres_uniques_hebreu(m) :
                /\ \A k \in 1..Len(journal) :
                      PremieresOccurrences(journal[k].mot, <<>>) = PremieresOccurrences(m, <<>>)
                         => journal[k].val = u
                /\ journal' = Append(journal, [mot |-> m, val |-> u])
    /\ UNCHANGED <<pc, argv, entree, sequence, results, retour, sortie, code, entier, fz>>

NextUniques == AppelUniques

SpecUniques == InitUniques /\ [][NextUniques]_vars

---------------------------------------------------------------------------
(* Properties of the number functions, under SpecNombre.                   *)

\* p is a prime number, by the definition.
EstPremier(p) == p >= 2 /\ \A k \in 2..(p - 1) : p % k # 0

RECURSIVE Produit(_)
Produit(s) == IF s = <<>> THEN 1 ELSE Head(s) * Produit(Tail(s))

Croissante(s) == \A i \in 1..(Len(s) - 1) : s[i] <= s[i + 1]

C7_Resultat ==
    IF entier >= 2
    THEN /\ Len(fz.factors) > 0
         /\ Croissante(fz.factors)
         /\ \A i \in 1..Len(fz.factors) : EstPremier(fz.factors[i])
         /\ Produit(fz.factors) = entier
         /\ (entier = 52 => fz.factors = <<2, 2, 13>>)
    ELSE fz.factors = <<entier>>

\* C7: for every n >= 2, factorize(n) terminates and returns a non-empty
\* list in non-decreasing order whose elements are all prime and whose
\* product is n (factorize(52) = [2, 2, 13]); for every n < 2 it returns
\* the one-element list [n].
C7_Factorize == [](fz.pc = "return" => C7_Resultat) /\ <>(fz.pc = "return")

\* factorize(52) has returned [2, 2, 13].
C7_Temoin == fz.pc = "return" /\ entier = 52 /\ fz.factors = <<2, 2, 13>>

\* No d with 2 <= d <= floor(sqrt(n)) divides n.
SansDiviseur(n) == \A k \in 2..n : k * k <= n => n % k # 0

\* C8: is_prime(n) is true exactly when n >= 2 and no integer d with
\* 2 <= d <= floor(sqrt(n)) divides n, and false for every n < 2; for
\* n >= 2 is_prime(n) holds if and only if factorize(n) = [n]; the
\* prime_status field of analyser_nombre is the Prime label exactly when
\* is_prime(n) holds.
C8_IsPrime ==
    /\ pc = "analyser_nombre" =>
          /\ retour.val = (entier >= 2 /\ SansDiviseur(entier))
          /\ (entier < 2 => retour.val = FALSE)
          /\ (entier >= 2 => (retour.val <=> fz.factors = <<entier>>))
    /\ pc = "fini" => ((results.prime_status = "Prime") <=> retour.val)

\* 49 = 7 * 7: the divisor is floor(sqrt(n)) itself.
C8_Temoin ==
    /\ pc = "fini"
    /\ entier = 49
    /\ retour.val = FALSE
    /\ results.prime_status = "Composite"
    /\ fz.factors = <<7, 7>>

---------------------------------------------------------------------------
(* Properties of the encoder, the decoder and the sum, under SpecMot.      *)

\* Control points of analyser_mot_hebreu after the named statement.
ApresEncoder == {"valeur", "decoder", "proprietes", "uniques", "gematria", "nombre", "retourne"}

ApresValeur == ApresEncoder \ {"valeur"}

ApresDecoder == ApresValeur \ {"decoder"}

ToutHebreu(w) == \A i \in 1..Len(w) : EstHebreu(w[i])

\* In Unicode each final form is followed by its base letter.
FormeDeBase(c) == IF c \in FormesFinales THEN c + 1 ELSE c

\* C1: for every word w made only of mapped Hebrew letters,
\* decoder_sequence_hebreu(encoder_mot_hebreu(w)) has the length of w and
\* is w with each final form replaced by its base letter at the same
\* position; it is w exactly when w holds no final form.
C1_AllerRetour ==
    (pc \in ApresDecoder /\ ToutHebreu(mot)) =>
        /\ Len(results.mot_decode) = Len(mot)
        /\ \A i \in 1..Len(mot) : results.mot_decode[i] = FormeDeBase(mot[i])
        /\ (results.mot_decode = mot) <=> (\A i \in 1..Len(mot) : mot[i] \notin FormesFinales)

\* shalom, written with a final mem, comes back with a plain mem.
C1_Temoin ==
    /\ pc = "retourne"
    /\ mot = Shalom
    /\ results.sequence_hebreu = SequenceShalom
    /\ results.mot_decode = <<1513, 1500, 1493, 1502>>

\* The values of the tokens of a dot-separated sequence of decimal numbers;
\* the empty string has none.
ValeursJetons(s) ==
    IF s = <<>> THEN <<>> ELSE [k \in 1..Len(split(s)) |-> int(split(s)[k]).val]

SontJetonsDecimaux(s) ==
    s = <<>> \/ \A k \in 1..Len(split(s)) : int(split(s)[k]).ok

\* The code the encoder is to give one encodable character.
CodeAttendu(c) == IF EstHebreu(c) THEN ALPHABET_HEBREU[c] ELSE upper(c)[1] - 65 + 1

\* The codes of the encodable characters of w, in order.
RECURSIVE CodesAttendus(_)
CodesAttendus(w) ==
    IF w = <<>> THEN <<>>
    ELSE IF EstHebreu(Head(w)) \/ isalpha(Head(w))
    THEN <<CodeAttendu(Head(w))>> \o CodesAttendus(Tail(w))
    ELSE CodesAttendus(Tail(w))

C3_Sequence ==
    /\ SontJetonsDecimaux(results.sequence_hebreu)
    /\ ValeursJetons(results.sequence_hebreu) = CodesAttendus(mot)
    /\ \A i \in 1..Len(mot) : EstHebreu(mot[i]) => CodeAttendu(mot[i]) \in 1..22
    /\ \A i \in 1..Len(mot) : mot[i] \in 65..90 \cup 97..122 =>
                                 CodeAttendu(mot[i]) \in 1..26

\* C3: for every word the encoder emits one token per character that is a
\* mapped Hebrew letter or an alphabetic letter, in order, joined by '.',
\* and skips every other character without error: the table value for a
\* Hebrew letter, uppercase_codepoint - 'A' + 1 for any other letter; a
\* word with no encodable letter gives the empty string.
C3_Encodeur ==
    /\ pc # "leve"
    /\ pc \in ApresEncoder => C3_Sequence

\* What holds of the encoder on the words it does not raise on, and the
\* words it raises on: those with a letter whose uppercase form is longer
\* than one character.
C3_HorsException ==
    /\ pc \in ApresEncoder => C3_Sequence
    /\ pc \in ApresEncoder =>
          \A i \in 1..Len(mot) : isalpha(mot[i]) => Len(upper(mot[i])) = 1
    /\ pc = "leve" =>
          /\ retour.exc = "TypeError"
          /\ \E i \in 1..Len(mot) : isalpha(mot[i]) /\ Len(upper(mot[i])) # 1

\* The sum of the table values of the mapped characters of w.
RECURSIVE SommeValeurs(_, _)
SommeValeurs(w, i) ==
    IF i = 0 THEN 0
    ELSE (IF EstHebreu(w[i]) THEN ALPHABET_HEBREU[w[i]] ELSE 0) + SommeValeurs(w, i - 1)

RECURSIVE Somme(_)
Somme(s) == IF s = <<>> THEN 0 ELSE Head(s) + Somme(Tail(s))

Inserer1(w, i, c) == SubSeq(w, 1, i) \o <<c>> \o SubSeq(w, i + 1, Len(w))

Retirer1(w, i) == SubSeq(w, 1, i - 1) \o SubSeq(w, i + 1, Len(w))

LettreNonHebraique(c) == isalpha(c) /\ ~ EstHebreu(c)

\* C4: mot_vers_nombre returns the sum of the table values of the mapped
\* Hebrew characters only; inserting or removing a non-Hebrew character
\* never changes it; it equals the sum of the encoder's tokens exactly
\* when the word holds no non-Hebrew letter; the value of shalom is 52.
C4_Somme ==
    /\ pc \in ApresValeur =>
          /\ results.valeur_numerique = SommeValeurs(mot, Len(mot))
          /\ \A c \in CharsMot \ DOMAIN ALPHABET_HEBREU : \A i \in 0..Len(mot) :
                mot_vers_nombre(Inserer1(mot, i, c)) = results.valeur_numerique
          /\ \A i \in 1..Len(mot) :
                ~ EstHebreu(mot[i]) =>
                    mot_vers_nombre(Retirer1(mot, i)) = results.valeur_numerique
          /\ (results.valeur_numerique = Somme(ValeursJetons(results.sequence_hebreu)))
                <=> ~ \E i \in 1..Len(mot) : LettreNonHebraique(mot[i])
          /\ (mot = Shalom => results.valeur_numerique = 52)
    /\ pc = "leve" => \E i \in 1..Len(mot) : LettreNonHebraique(mot[i])

\* A Hebrew letter beside a Latin one: the sum counts the first only, the
\* encoder both.
C4_Temoin ==
    /\ pc = "retourne"
    /\ mot = <<1513, 122>>
    /\ results.valeur_numerique = 21
    /\ ValeursJetons(results.sequence_hebreu) = <<21, 26>>

\* C10: in every result mapping analyser_mot_hebreu returns,
\* valeur_numerique, gematria.valeur_simple, gematria.valeur_miloui,
\* decimal and valeur_gematria are the same integer, which is >= 0; the
\* negative branch of analyser_nombre is not taken, square_root is never
\* not-a-number, and the one-element factor list for n < 2 is [0] or [1].
C10_Valeurs ==
    /\ pc = "retourne" =>
          /\ results.valeur_numerique \in Nat
          /\ results.gematria.valeur_simple = results.valeur_numerique
          /\ results.gematria.valeur_miloui = results.valeur_numerique
          /\ results.decimal = results.valeur_numerique
          /\ results.valeur_gematria = results.valeur_numerique
          /\ ~ results.square_root.nan
          /\ (results.decimal < 2 => results.factors \in {<<0>>, <<1>>})
    /\ pc = "nombre" => results.valeur_numerique >= 0
    /\ pc = "leve" => retour.exc # "ValueError"

\* A Latin word: its sequence is not empty and its value is 0.
C10_Temoin ==
    /\ pc = "retourne"
    /\ mot = <<65>>
    /\ results.sequence_hebreu = <<49>>
    /\ results.decimal = 0
    /\ results.gematria.valeur_miloui = 0
    /\ results.factors = <<0>>

---------------------------------------------------------------------------
(* Properties of the decoder, under SpecSequence.                          *)

\* The base letter of a value: the one mapped letter with that value that
\* is not a final form.
LettreCanonique(v) ==
    CHOOSE c \in DOMAIN ALPHABET_HEBREU \ FormesFinales : ALPHABET_HEBREU[c] = v

\* What the decoder is to yield for one token: a token has a value when it
\* is a non-empty string of decimal digits.
JetonAttendu(jeton) ==
    IF int(jeton).ok /\ int(jeton).val \in 1..22 THEN <<LettreCanonique(int(jeton).val)>>
    ELSE IF int(jeton).ok /\ int(jeton).val \in 23..26 THEN <<int(jeton).val + 65 - 1>>
    ELSE <<>>

RECURSIVE MotAttendu(_)
MotAttendu(jetons) ==
    IF jetons = <<>> THEN <<>> ELSE JetonAttendu(Head(jetons)) \o MotAttendu(Tail(jetons))

C2_Sortie ==
    /\ retour.val = MotAttendu(split(sequence))
    /\ \A i \in 1..Len(retour.val) : retour.val[i] \notin 65..86

\* C2: for every dot-separated sequence, each digit-only token with value
\* in 1..22 yields the non-final Hebrew letter of that value, each with
\* value in 23..26 yields the Latin letter W..Z, every other token yields
\* nothing, and the output is the concatenation of these letters in token
\* order; no Latin letter A..V is produced.
C2_Decodeur == pc = "fini" => (retour.ok /\ C2_Sortie)

\* What holds of the decoder on the sequences it does not raise on, and the
\* sequences it raises on: those with a token made of digit characters of
\* which one is not a decimal digit.
C2_HorsException ==
    pc = "fini" =>
        /\ retour.ok => C2_Sortie
        /\ ~ retour.ok <=>
              \E k \in 1..Len(split(sequence)) :
                 isdigit(split(sequence)[k]) /\ ~ int(split(sequence)[k]).ok
        /\ ~ retour.ok => retour.exc = "ValueError"

---------------------------------------------------------------------------
(* Properties of main, under Spec.                                         *)

\* Control points of main once the word to analyse has been chosen.
ApresChoix == {"analyser", "encoder", "retourne", "table", "exit"} \cup ApresEncoder

ContientPoint(e) == \E i \in 1..Len(e) : e[i] = 46

\* Every dot-separated token consists only of decimal digits.
C5_SequenceNumerique(e) == \A k \in 1..Len(split(e)) : int(split(e)[k]).ok

ADecode == \E k \in 1..Len(sortie) : sortie[k].genre = "decode"

\* C5 as stated: whenever the stripped argument is a dot-separated numeric
\* sequence, every token of it consisting only of decimal digits (a single
\* token included), it is first decoded and the decoded word is analysed;
\* in every other case the argument itself is analysed as a literal word.
C5_Original ==
    (Len(argv) = 2 /\ pc \notin {"main", "try"}) =>
        IF C5_SequenceNumerique(entree)
        THEN /\ pc # "leve"
             /\ ADecode
             /\ mot = decoder_sequence_hebreu(entree).val
        ELSE /\ pc # "leve" \/ sortie # <<>>
             /\ ~ ADecode
             /\ mot = entree

\* The stripped argument holds a '.' and each of its tokens is a non-empty
\* string of characters for which str.isdigit() is true.
C5_SequenceAmendee(e) == ContientPoint(e) /\ \A k \in 1..Len(split(e)) : isdigit(split(e)[k])

\* C5 amended: the argument is handed to the decoder first exactly when it
\* holds a '.' and each token is a non-empty string of isdigit characters;
\* then the decoded word is the word analysed, unless the decoder raises,
\* in which case nothing is analysed; in every other case, a single token
\* without '.' included, the argument itself is the word analysed.
C5_Amende ==
    /\ (Len(argv) = 2 /\ pc \notin {"main", "try"}) =>
          IF C5_SequenceAmendee(entree)
          THEN /\ sequence = entree
               /\ IF decoder_sequence_hebreu(entree).ok
                  THEN /\ ADecode
                       /\ mot = decoder_sequence_hebreu(entree).val
                       /\ pc \in ApresChoix
                  ELSE /\ ~ ADecode
                       /\ pc \in {"leve", "exit"}
                       /\ results = <<>>
          ELSE /\ sequence = <<>>
               /\ ~ ADecode
               /\ mot = entree
    /\ pc \in ApresEncoder \cup {"encoder", "retourne", "table"} => results.mot_original = mot

\* The sequence of the usage message is decoded, then analysed.
C5_Temoin ==
    /\ pc = "retourne"
    /\ entree = SequenceShalom
    /\ mot = <<1513, 1500, 1493, 1502>>
    /\ results.mot_original = mot
    /\ results.valeur_numerique = 52

\* A single number, without '.', is analysed as a word.
C5_TemoinJetonSeul ==
    /\ pc = "retourne"
    /\ entree = <<49, 50>>
    /\ results.mot_original = <<49, 50>>

GenresRapport == {"rapport", "racine", "hachages", "detail", "table"}

AImprime(genres) == \E k \in 1..Len(sortie) : sortie[k].genre \in genres

ExceptionLevee == retour.exc \notin {"unset", "none"}

\* The distance of a control point of main from the start.
Rang(p) ==
    CASE p = "main" -> 0
      [] p = "try" -> 1
      [] p = "analyser" -> 2
      [] p = "encoder" -> 3
      [] p = "valeur" -> 4
      [] p = "decoder" -> 5
      [] p = "proprietes" -> 6
      [] p = "uniques" -> 7
      [] p = "gematria" -> 8
      [] p = "nombre" -> 9
      [] p = "retourne" -> 10
      [] p = "table" -> 11
      [] p = "leve" -> 12
      [] p = "exit" -> 13

C6_Etat ==
    /\ code \in {Running, 0, 1}
    /\ (pc = "exit") <=> (code # Running)
    /\ pc # "exit" => ENABLED Next
    /\ pc = "exit" =>
          /\ (code = 1) <=> (Len(argv) # 2 \/ ExceptionLevee)
          /\ Len(argv) # 2 =>
                /\ sortie = <<Ligne("usage", <<>>)>>
                /\ results = <<>> /\ mot = <<>> /\ sequence = <<>>
                /\ ~ ExceptionLevee
          /\ (code = 1 /\ Len(argv) = 2) =>
                /\ sortie[Len(sortie)].genre = "erreur"
                /\ ~ AImprime(GenresRapport)
          /\ code = 0 =>
                /\ AImprime({"rapport"})
                /\ sortie[Len(sortie)].genre = "table"
                /\ ~ AImprime({"erreur", "usage"})

\* C6: every run of main ends with exit code 0 or 1; the code is 1 exactly
\* when the argument count is wrong (the usage message alone is printed,
\* nothing is decoded or analysed) or an exception was raised and caught
\* (an error message is printed); otherwise the report and the table are
\* printed and the code is 0.  A run that exits with 1 prints no part of
\* the report.  Every step of main moves forward, so a run ends.
C6_Sortie == [](C6_Etat) /\ [][Rang(pc') > Rang(pc)]_vars

\* The encoder raises on a sharp s: error line, exit code 1, no report.
C6_Temoin ==
    /\ pc = "exit"
    /\ code = 1
    /\ entree = <<1513, 223>>
    /\ retour.exc = "TypeError"
    /\ sortie = <<Ligne("erreur", <<>>)>>

---------------------------------------------------------------------------
(* Properties of lettres_uniques_hebreu, under SpecUniques.                *)

LettresDe(w) == {w[i] : i \in 1..Len(w)} \cap DOMAIN ALPHABET_HEBREU

\* C9: lettres_uniques_hebreu returns a string that holds each mapped
\* Hebrew letter of the word exactly once and nothing else, in ascending
\* order of value; the result depends only on the set of Hebrew letters
\* present, also when a base letter and its final form are both present.
C9_Uniques ==
    /\ \A k \in 1..Len(journal) :
          /\ {journal[k].val[i] : i \in 1..Len(journal[k].val)} = LettresDe(journal[k].mot)
          /\ Len(journal[k].val) = Cardinality(LettresDe(journal[k].mot))
          /\ \A i \in 1..(Len(journal[k].val) - 1) :
                ALPHABET_HEBREU[journal[k].val[i]] <= ALPHABET_HEBREU[journal[k].val[i + 1]]
    /\ \A k, l \in 1..Len(journal) :
          LettresDe(journal[k].mot) = LettresDe(journal[l].mot)
             => journal[k].val = journal[l].val

\* What holds of every call: the letters, once each, by value.
C9_SansOrdreDesEgaux ==
    \A k \in 1..Len(journal) :
       /\ {journal[k].val[i] : i \in 1..Len(journal[k].val)} = LettresDe(journal[k].mot)
       /\ Len(journal[k].val) = Cardinality(LettresDe(journal[k].mot))
       /\ \A i \in 1..(Len(journal[k].val) - 1) :
             ALPHABET_HEBREU[journal[k].val[i]] <= ALPHABET_HEBREU[journal[k].val[i + 1]]

=============================================================================
